---- MODULE Spec2Model ----
(***************************************************************************)
(* Model of the documentation coverage helper (lacunas-tc):                *)
(*   app.py                 - corpus load, similarity search, coverage     *)
(*                            analysis and the /analyze_coverage handler   *)
(*   generate-embedings.py  - batch embedding pipeline with bounded retry  *)
(*   extract_data_from_markdown.py - splitter of the consolidated Markdown *)
(*                            file into one record per document            *)
(*                                                                         *)
(* Texts are sequences of one-character strings.  A JSON value that may be *)
(* null is a record [isnone, vec].  A similarity is an exact number in     *)
(* units of 1/SimUnit (the sample vectors have integer norms).             *)
(***************************************************************************)
EXTENDS Integers, Sequences, FiniteSets, TLC

VARIABLES
    PROCESSED_DOCS,   \* app.py global: the corpus loaded at startup
    pc,               \* position of the request handler
    request,          \* the body of the request being handled
    query,            \* the stripped query of the request
    query_embedding,  \* the query vector (argument of get_relevant_documents)
    top_k,            \* the top_k argument of get_relevant_documents
    relevant,         \* outcome of get_relevant_documents: [exc, val]
    response,         \* what the client receives for the request
    embed_calls,      \* external embedding calls made for this request
    gen_calls,        \* external generation calls made for this request
    search_calls,     \* similarity searches made for this request
    embed_outcome,    \* "none" | "ok" | "fail": the query-time embedding call
    gen_outcome,      \* "none" | "ok" | "fail": the generation call
    input_file,       \* raw_docs.json as the batch pipeline finds it
    bpc,              \* position of generate_embeddings_for_docs
    raw_docs,         \* the records read from raw_docs.json
    processed_docs,   \* the pipeline's output list
    doc_index,        \* 1-based position of the loop in raw_docs
    attempt,          \* loop variable of generate_embedding_with_retry
    calls,            \* embedding calls made by the current invocation
    outcomes,         \* results of those calls, in order (None: the call failed)
    sleeps,           \* seconds slept by the current invocation, in order
    ret,              \* return value of the current invocation
    returned,         \* per processed record: whether embedding ran, and its value
    output_file,      \* processed_docs.json as written by the pipeline
    batch_ret,        \* return value of generate_embeddings_for_docs
    markdown_file,    \* the consolidated Markdown file as the extractor finds it
    xpc,              \* position of extract_data_from_markdown
    full_content,     \* the text read from the Markdown file
    scan_pos,         \* where finditer looks for the next match
    match,            \* the match of doc_pattern the loop body is working on
    extracted_docs,   \* the extractor's output list
    seen,             \* per match of doc_pattern: what the loop body computed
    raw_docs_file,    \* raw_docs.json as written by the extractor
    extract_ret       \* return value of extract_data_from_markdown

appVars == <<PROCESSED_DOCS, pc, request, query, query_embedding, top_k,
             relevant, response, embed_calls, gen_calls, search_calls,
             embed_outcome, gen_outcome>>

batchVars == <<input_file, bpc, raw_docs, processed_docs, doc_index, attempt,
               calls, outcomes, sleeps, ret, returned, output_file, batch_ret>>

extractVars == <<markdown_file, xpc, full_content, scan_pos, match,
                 extracted_docs, seen, raw_docs_file, extract_ret>>

vars == <<appVars, batchVars, extractVars>>

----------------------------------------------------------------------------
(* Bounds of the model *)

MaxDocs == 3        \* records in the corpus
MaxK == 3           \* largest top_k tried on get_relevant_documents
MaxRawDocs == 2     \* records in raw_docs.json
MaxBlocks == 2      \* documents in the consolidated Markdown file

Min(a, b) == IF a < b THEN a ELSE b
Max(a, b) == IF a > b THEN a ELSE b

----------------------------------------------------------------------------
(* Values *)

\* Python None / JSON null in a place where a vector is expected
NoneValue == [isnone |-> TRUE, vec |-> <<>>]
Vector(v) == [isnone |-> FALSE, vec |-> v]

\* Embeddings a stored record may carry: vectors of the model's dimension
\* (2), one of another dimension (3), the empty list, and null (a record
\* without the key reads as null: doc_info.get("embedding")).  The vectors
\* are non-zero, as the embedding service's are: the cosine of a zero
\* vector is not a number and is not modelled.
DocVectors == {<<1, 0>>, <<0, 1>>, <<3, 4>>, <<-1, 0>>, <<1, 0, 0>>}
EmbeddingValues == {NoneValue, Vector(<<>>)} \cup {Vector(v) : v \in DocVectors}

\* Vectors the embedding service may return for a query
QueryVectors == {<<1, 0>>, <<3, 4>>, <<1, 0, 0>>}

\* A record of processed_docs.json; its number stands for title, slug,
\* content and filepath of the record, which the pipeline always writes.
MakeDocs(f) == [i \in DOMAIN f |-> [title |-> i, embedding |-> f[i]]]
Corpora == UNION {{MakeDocs(f) : f \in [1..n -> EmbeddingValues]} : n \in 0..MaxDocs}

\* processed_docs.json as found at startup
CorpusFiles == {[state |-> "missing", docs |-> <<>>], [state |-> "corrupt", docs |-> <<>>]}
               \cup {[state |-> "ok", docs |-> c] : c \in Corpora}

\* load_documentation: PROCESSED_DOCS keeps its initial [] unless the file
\* is read and decoded.
load_documentation(file) == IF file.state = "ok" THEN file.docs ELSE <<>>

----------------------------------------------------------------------------
(* Cosine similarity *)

SimUnit == 100 * 100

RECURSIVE dot_upto(_, _, _)
dot_upto(u, v, n) == IF n = 0 THEN 0 ELSE dot_upto(u, v, n - 1) + u[n] * v[n]

dot(u, v) == dot_upto(u, v, Len(u))

\* Euclidean norm; exact for the sample vectors
norm(u) == CHOOSE r \in 0..dot(u, u) : r * r = dot(u, u)

\* 1 - scipy cosine(u, v), in units of 1/SimUnit
similarity(u, v) ==
    LET num == SimUnit * dot(u, v)
        den == norm(u) * norm(v)
    IN  IF num >= 0 THEN num \div den ELSE -((-num) \div den)

----------------------------------------------------------------------------
(* get_relevant_documents *)

\* np.array(x): a 0-d object array for None, a 1-d array for a list
np_array(e) == IF e.isnone THEN [ndim |-> 0, data |-> <<>>]
               ELSE [ndim |-> 1, data |-> e.vec]

\* The for loop: (similarity, doc_info) pairs of the records that pass the
\* filter.  The condition is evaluated left to right: "is not None" holds
\* for every array, then len() of a 0-d array raises TypeError, which is
\* outside the try block.  Inside it, cosine() of two 1-d arrays of equal
\* length raises no ValueError.
RECURSIVE scan_documents(_, _, _, _)
scan_documents(docs, q, i, similarities) ==
    IF i > Len(docs) THEN [exc |-> "none", val |-> similarities]
    ELSE LET doc_embedding == np_array(docs[i].embedding) IN
         IF doc_embedding.ndim = 0
         THEN [exc |-> "TypeError", val |-> <<>>]
         ELSE IF Len(doc_embedding.data) > 0 /\ Len(q) = Len(doc_embedding.data)
              THEN scan_documents(docs, q, i + 1,
                       Append(similarities,
                              [sim |-> similarity(q, doc_embedding.data), idx |-> i]))
              ELSE scan_documents(docs, q, i + 1, similarities)

\* Insertion that reverses the order of equal keys
RECURSIVE insert_desc_unstable(_, _)
insert_desc_unstable(sorted, x) ==
    IF sorted = <<>> THEN <<x>>
    ELSE IF Head(sorted).sim > x.sim
         THEN <<Head(sorted)>> \o insert_desc_unstable(Tail(sorted), x)
         ELSE <<x>> \o sorted

\* One step of a stable descending sort: x goes after every element whose
\* key is greater or equal.
RECURSIVE insert_desc(_, _)
insert_desc(sorted, x) ==
    IF sorted = <<>> THEN <<x>>
    ELSE IF Head(sorted).sim >= x.sim
         THEN <<Head(sorted)>> \o insert_desc(Tail(sorted), x)
         ELSE <<x>> \o sorted

\* similarities.sort(key=lambda x: x[0], reverse=True): stable, descending
RECURSIVE list_sort_reverse(_)
list_sort_reverse(s) ==
    IF s = <<>> THEN <<>>
    ELSE insert_desc(list_sort_reverse(SubSeq(s, 1, Len(s) - 1)), s[Len(s)])

\* A slice that keeps one element too many
slice_upto_off_by_one(s, k) == SubSeq(s, 1, Min(k + 1, Len(s)))

\* s[:k]
slice_upto(s, k) ==
    IF k >= 0 THEN SubSeq(s, 1, Min(k, Len(s)))
    ELSE SubSeq(s, 1, Max(0, Len(s) + k))

get_relevant_documents(docs, q, k) ==
    LET scanned == scan_documents(docs, q, 1, <<>>) IN
    IF scanned.exc # "none" THEN scanned
    ELSE [exc |-> "none", val |-> slice_upto(list_sort_reverse(scanned.val), k)]

----------------------------------------------------------------------------
(* Texts and request bodies *)

Whitespace == {" ", "\t", "\n"}

RECURSIVE lstrip(_)
lstrip(s) == IF s # <<>> /\ Head(s) \in Whitespace THEN lstrip(Tail(s)) ELSE s

RECURSIVE rstrip(_)
rstrip(s) == IF s # <<>> /\ s[Len(s)] \in Whitespace
             THEN rstrip(SubSeq(s, 1, Len(s) - 1)) ELSE s

\* A strip that leaves the text as it is
strip_skipped(s) == s

\* str.strip()
strip(s) == rstrip(lstrip(s))

QueryTexts == {<<>>, <<" ", " ">>, <<"\n">>, <<"q">>, <<" ", "q", " ">>}

\* Bodies of a POST to /analyze_coverage.  kind: "malformed" (not JSON),
\* "array" and "null" (JSON, but no object), "object".  For an object,
\* has_query tells whether the key "query" is present, qtype the JSON type
\* of its value and qtext the value when it is a string.
Body(kind, has_query, qtype, qtext) ==
    [kind |-> kind, has_query |-> has_query, qtype |-> qtype, qtext |-> qtext]

RequestBodies ==
    {Body("array", FALSE, "none", <<>>),
     Body("null", FALSE, "none", <<>>),
     Body("malformed", FALSE, "none", <<>>),
     Body("object", FALSE, "none", <<>>),
     Body("object", TRUE, "int", <<>>),
     Body("object", TRUE, "null", <<>>)}
    \cup {Body("object", TRUE, "str", t) : t \in QueryTexts}

NoBody == Body("none", FALSE, "none", <<>>)

----------------------------------------------------------------------------
(* Responses *)

NoText == [prefix |-> "none", query |-> <<>>, tail |-> "none"]

\* origin: "handler" when the handler's own code returned the response,
\* "framework" when an exception left the handler and Flask answered.
\* exc names that exception.  kind: "result" (a coverage result), "error"
\* (an error object), "unhandled".
Response(origin, status, kind, exc, text, info) ==
    [origin |-> origin, status |-> status, kind |-> kind, exc |-> exc,
     response_text |-> text, relevant_docs_info |-> info]

NoResponse == Response("none", 0, "none", "none", NoText, <<>>)

\* An exception that leaves the handler: Flask answers an HTTPException
\* with its own status and anything else with 500.
Propagated(exc) ==
    Response("framework", IF exc = "BadRequest" THEN 400 ELSE 500,
             "unhandled", exc, NoText, <<>>)

\* jsonify({"error": ...}), 400
blank_query_response == Response("handler", 400, "error", "none", NoText, <<>>)

\* The embedding failure answered as a result with status 200
embedding_failure_degraded ==
    Response("handler", 200, "result", "none",
             [prefix |-> "embedding_failed", query |-> <<>>, tail |-> "none"], <<>>)

\* jsonify({"error": "Não foi possível gerar o embedding ..."}), 500
embedding_failure_response ==
    Response("handler", 500, "error", "none",
             [prefix |-> "embedding_failed", query |-> <<>>, tail |-> "none"], <<>>)

\* except Exception: jsonify({"error": ..., "response_text": "",
\* "relevant_docs_info": []}), 500
internal_error_response(exc) ==
    Response("handler", 500, "error", exc,
             [prefix |-> "internal_error", query |-> <<>>, tail |-> "none"], <<>>)

----------------------------------------------------------------------------
(* analyze_coverage_with_context *)

\* f"{sim * 100:.2f}%" of a similarity given in units of 1/SimUnit
format_percent(sim) ==
    LET a == IF sim < 0 THEN -sim ELSE sim IN
    [negative |-> sim < 0, whole |-> a \div 100, hundredths |-> a % 100]

doc_info_entry(docs, m) ==
    [title |-> docs[m.idx].title, slug |-> docs[m.idx].title,
     relevance |-> format_percent(m.sim)]

build_relevant_docs_info(docs, ranked) ==
    [j \in 1..Len(ranked) |-> doc_info_entry(docs, ranked[j])]

CoverageResult(mode, text, info, called) ==
    [mode |-> mode, response_text |-> text, relevant_docs_info |-> info,
     called_gen |-> called]

\* Match mode keeps the documents when generation fails
analyze_keeps_docs_on_failure(docs, q, ranked, gen_ok) ==
    IF docs = <<>>
    THEN CoverageResult("not_loaded",
             [prefix |-> "not_loaded", query |-> <<>>, tail |-> "none"], <<>>, FALSE)
    ELSE IF ranked = <<>>
    THEN CoverageResult("no_match",
             [prefix |-> "not_found", query |-> q,
              tail |-> IF gen_ok THEN "model_text" ELSE "error_note"], <<>>, TRUE)
    ELSE CoverageResult("match",
             [prefix |-> "partially_covered", query |-> q,
              tail |-> IF gen_ok THEN "model_text" ELSE "error_note"],
             build_relevant_docs_info(docs, ranked), TRUE)

\* The mode taken from the corpus instead of the matches
analyze_mode_by_corpus(docs, q, ranked, gen_ok) ==
    IF docs = <<>>
    THEN CoverageResult("not_loaded",
             [prefix |-> "not_loaded", query |-> <<>>, tail |-> "none"], <<>>, FALSE)
    ELSE IF Len(docs) = 1
    THEN CoverageResult("no_match",
             [prefix |-> "not_found", query |-> q,
              tail |-> IF gen_ok THEN "model_text" ELSE "error_note"], <<>>, TRUE)
    ELSE CoverageResult("match",
             [prefix |-> "partially_covered", query |-> q,
              tail |-> IF gen_ok THEN "model_text" ELSE "error_note"],
             IF gen_ok THEN build_relevant_docs_info(docs, ranked) ELSE <<>>, TRUE)

\* docs is the global PROCESSED_DOCS; gen_ok tells whether the call to the
\* generative model (and reading its text) succeeds.  The result's
\* response_text is prefix + query + tail.
analyze_coverage_with_context(docs, q, ranked, gen_ok) ==
    IF docs = <<>>
    THEN CoverageResult("not_loaded",
             [prefix |-> "not_loaded", query |-> <<>>, tail |-> "none"], <<>>, FALSE)
    ELSE IF ranked = <<>>
    THEN CoverageResult("no_match",
             [prefix |-> "not_found", query |-> q,
              tail |-> IF gen_ok THEN "model_text" ELSE "error_note"], <<>>, TRUE)
    ELSE CoverageResult("match",
             [prefix |-> "partially_covered", query |-> q,
              tail |-> IF gen_ok THEN "model_text" ELSE "error_note"],
             IF gen_ok THEN build_relevant_docs_info(docs, ranked) ELSE <<>>, TRUE)

----------------------------------------------------------------------------
(* generate-embedings.py: clean_text_for_embedding *)

IsLineStart(text, i) == i = 1 \/ text[i - 1] = "\n"

\* Last index of the run of characters of S that starts at i (i - 1 when
\* text[i] is not in S)
RECURSIVE run_end(_, _, _)
run_end(text, i, S) ==
    IF i <= Len(text) /\ text[i] \in S THEN run_end(text, i + 1, S) ELSE i - 1

NoNewline(text, a, b) == \A x \in a..b : text[x] # "\n"

SetMin(S) == CHOOSE x \in S : \A y \in S : x <= y

\* The alternatives of the pattern of line 25.  Each gives the index of the
\* last character of its match starting at i, or 0 when it does not match.

\* \[.*?\]\(.*?\)
link_end(text, i) ==
    IF text[i] # "[" THEN 0
    ELSE LET J == {j \in (i + 1)..(Len(text) - 1) :
                      text[j] = "]" /\ text[j + 1] = "(" /\ NoNewline(text, i + 1, j - 1)}
         IN  IF J = {} THEN 0
             ELSE LET j == SetMin(J)
                      M == {m \in (j + 2)..Len(text) :
                               text[m] = ")" /\ NoNewline(text, j + 2, m - 1)}
                  IN  IF M = {} THEN 0 ELSE SetMin(M)

\* The grave accent character, written as a name
Backtick == "backtick"

\* \*\* | __ | \* | _ | #+ | (grave accent)+
emphasis_end(text, i) ==
    IF text[i] = "*" /\ i < Len(text) /\ text[i + 1] = "*" THEN i + 1
    ELSE IF text[i] = "_" /\ i < Len(text) /\ text[i + 1] = "_" THEN i + 1
    ELSE IF text[i] \in {"*", "_"} THEN i
    ELSE IF text[i] = "#" THEN run_end(text, i, {"#"})
    ELSE IF text[i] = Backtick THEN run_end(text, i, {Backtick})
    ELSE 0

\* ^\s*[-+*]\s*
bullet_end(text, i) ==
    IF ~IsLineStart(text, i) THEN 0
    ELSE LET p == run_end(text, i, Whitespace) + 1 IN
         IF p <= Len(text) /\ text[p] \in {"-", "+", "*"}
         THEN run_end(text, p + 1, Whitespace)
         ELSE 0

\* ^>\s*
quote_end(text, i) ==
    IF IsLineStart(text, i) /\ text[i] = ">"
    THEN run_end(text, i + 1, Whitespace) ELSE 0

\* \|.*?-+\s*\|
table_end(text, i) ==
    IF text[i] # "|" THEN 0
    ELSE LET bar_after(p) == run_end(text, run_end(text, p, {"-"}) + 1, Whitespace) + 1
             P == {p \in (i + 1)..Len(text) :
                      /\ text[p] = "-"
                      /\ NoNewline(text, i + 1, p - 1)
                      /\ bar_after(p) <= Len(text)
                      /\ text[bar_after(p)] = "|"}
         IN  IF P = {} THEN 0 ELSE bar_after(SetMin(P))

\* The first alternative that matches at i decides
match_end(text, i) ==
    IF link_end(text, i) # 0 THEN link_end(text, i)
    ELSE IF emphasis_end(text, i) # 0 THEN emphasis_end(text, i)
    ELSE IF bullet_end(text, i) # 0 THEN bullet_end(text, i)
    ELSE IF quote_end(text, i) # 0 THEN quote_end(text, i)
    ELSE table_end(text, i)

\* re.sub(pattern, '', text, flags=re.MULTILINE)
RECURSIVE remove_markdown(_, _)
remove_markdown(text, i) ==
    IF i > Len(text) THEN <<>>
    ELSE IF match_end(text, i) = 0 THEN <<text[i]>> \o remove_markdown(text, i + 1)
    ELSE remove_markdown(text, match_end(text, i) + 1)

\* re.sub(r'[S]+', ' ', text)
RECURSIVE replace_runs(_, _, _)
replace_runs(text, i, S) ==
    IF i > Len(text) THEN <<>>
    ELSE IF text[i] \in S
         THEN <<" ">> \o replace_runs(text, run_end(text, i, S) + 1, S)
         ELSE <<text[i]>> \o replace_runs(text, i + 1, S)

clean_text_for_embedding(text) ==
    LET t1 == remove_markdown(text, 1)
        t2 == strip(replace_runs(t1, 1, Whitespace))
    IN  strip(replace_runs(t2, 1, {"\n"}))

----------------------------------------------------------------------------
(* generate-embedings.py: the batch pipeline *)

RETRIES == 3
CONTENT_LIMIT == 1024

RawDoc(title, slug, content, filepath) ==
    [title |-> title, slug |-> slug, content |-> content, filepath |-> filepath]

\* Records of raw_docs.json: a plain one, one whose cleaned text is empty
\* ("|. -|" is a table rule), one with Markdown syntax.
RawDocSamples ==
    {RawDoc(<<"A">>, "a", <<"b">>, "a.md"),
     RawDoc(<<"|">>, "t", <<"-", "|">>, "t.md"),
     RawDoc(<<"#", "T">>, "m", <<"*", "x", "*", "\n", "-", " ", "y">>, "m.md")}

RawDocLists == UNION {[1..n -> RawDocSamples] : n \in 0..MaxRawDocs}

InputFiles == {[state |-> "missing", docs |-> <<>>], [state |-> "corrupt", docs |-> <<>>]}
              \cup {[state |-> "ok", docs |-> d] : d \in RawDocLists}

\* Vectors the embedding service may return for a document
BatchVectors == {<<1, 0>>, <<0, 1>>}

\* f"{doc_title}. {doc_content[:1024]}"
embedding_text_raw(doc) == doc.title \o <<".", " ">> \o slice_upto(doc.content, CONTENT_LIMIT)

embedding_text(doc) == clean_text_for_embedding(embedding_text_raw(doc))

\* A delay that starts one doubling too far
backoff_delay_doubled(n) == 2 ^ (n + 1)

\* time.sleep(2 ** attempt)
backoff_delay(n) == 2 ^ n

\* The record as appended: doc_data with its "embedding" key set
WithEmbedding(doc, e) ==
    [title |-> doc.title, slug |-> doc.slug, content |-> doc.content,
     filepath |-> doc.filepath, embedding |-> e]

\* A record without embedding is left out
append_unless_failed(processed, doc, e) ==
    IF e.isnone THEN processed ELSE Append(processed, WithEmbedding(doc, e))

\* doc_data["embedding"] = ...; processed_docs.append(doc_data)
append_processed(processed, doc, e) == Append(processed, WithEmbedding(doc, e))

NoFile == [written |-> FALSE, docs |-> <<>>]

\* generate_embedding_with_retry is not running
RetryIdle ==
    /\ attempt = 0
    /\ calls = 0
    /\ outcomes = <<>>
    /\ sleeps = <<>>
    /\ ret = NoneValue

BatchNotStarted ==
    /\ bpc = "start"
    /\ raw_docs = <<>>
    /\ processed_docs = <<>>
    /\ doc_index = 1
    /\ RetryIdle
    /\ returned = <<>>
    /\ output_file = NoFile
    /\ batch_ret = "none"

----------------------------------------------------------------------------
(* extract_data_from_markdown.py: texts and patterns *)

SetMax(S) == CHOOSE x \in S : \A y \in S : x >= y

\* text has lit at index i
starts_at(text, i, lit) ==
    /\ i >= 1
    /\ i + Len(lit) - 1 <= Len(text)
    /\ \A k \in 1..Len(lit) : text[i + k - 1] = lit[k]

\* str.find from index from on, 0 when lit does not occur
str_find(text, lit, from) ==
    LET S == {i \in from..(Len(text) - Len(lit) + 1) : starts_at(text, i, lit)}
    IN  IF S = {} THEN 0 ELSE SetMin(S)

\* str.replace(old, new, 1)
replace_first(text, old, new) ==
    LET i == str_find(text, old, 1)
    IN  IF i = 0 THEN text
        ELSE SubSeq(text, 1, i - 1) \o new \o SubSeq(text, i + Len(old), Len(text))

\* str.replace(old, new)
RECURSIVE replace_all(_, _, _)
replace_all(text, old, new) ==
    LET i == str_find(text, old, 1)
    IN  IF i = 0 THEN text
        ELSE SubSeq(text, 1, i - 1) \o new
             \o replace_all(SubSeq(text, i + Len(old), Len(text)), old, new)

\* str.strip(chars)
RECURSIVE lstrip_chars(_, _)
lstrip_chars(s, S) == IF s # <<>> /\ Head(s) \in S THEN lstrip_chars(Tail(s), S) ELSE s

RECURSIVE rstrip_chars(_, _)
rstrip_chars(s, S) == IF s # <<>> /\ s[Len(s)] \in S
                      THEN rstrip_chars(SubSeq(s, 1, Len(s) - 1), S) ELSE s

strip_chars(s, S) == rstrip_chars(lstrip_chars(s, S), S)

UpperLetters == <<"A", "B", "C", "D", "E", "F", "G", "H", "I", "J", "K", "L", "M", "N", "O", "P", "Q", "R", "S", "T", "U", "V", "W", "X", "Y", "Z">>

LowerLetters == <<"a", "b", "c", "d", "e", "f", "g", "h", "i", "j", "k", "l", "m", "n", "o", "p", "q", "r", "s", "t", "u", "v", "w", "x", "y", "z">>

Digits == {"0", "1", "2", "3", "4", "5", "6", "7", "8", "9"}

\* str.lower()
lower(text) ==
    [i \in 1..Len(text) |->
        IF \E n \in 1..Len(UpperLetters) : UpperLetters[n] = text[i]
        THEN LowerLetters[CHOOSE n \in 1..Len(UpperLetters) : UpperLetters[n] = text[i]]
        ELSE text[i]]

\* Characters that [^a-z0-9] leaves alone
SlugChars == {LowerLetters[n] : n \in 1..Len(LowerLetters)} \cup Digits

RECURSIVE skip_non_slug(_)
skip_non_slug(text) ==
    IF text # <<>> /\ Head(text) \notin SlugChars THEN skip_non_slug(Tail(text)) ELSE text

\* re.sub(r'[^a-z0-9]+', '-', text)
RECURSIVE sub_non_slug(_)
sub_non_slug(text) ==
    IF text = <<>> THEN <<>>
    ELSE IF Head(text) \in SlugChars THEN <<Head(text)>> \o sub_non_slug(Tail(text))
    ELSE <<"-">> \o sub_non_slug(skip_non_slug(text))

\* Line 91: the slug made of a title or a file name
slugify(text) == strip_chars(sub_non_slug(lower(text)), {"-"})

\* os.path.basename
basename(path) ==
    LET S == {i \in 1..Len(path) : path[i] = "/"}
    IN  IF S = {} THEN path ELSE SubSeq(path, SetMax(S) + 1, Len(path))

MdSuffix == <<".", "m", "d">>

\* Line 86: the title made of the file name
title_from_filename(path) ==
    strip(replace_all(replace_all(replace_all(basename(path), MdSuffix, <<>>),
                                  <<"-">>, <<" ">>), <<"_">>, <<" ">>))

\* A text that may be None
NoneText == [isnone |-> TRUE, text |-> <<>>]
SomeText(t) == [isnone |-> FALSE, text |-> t]

\* Python's truth value of a text that may be None
Truthy(v) == ~v.isnone /\ v.text # <<>>

----------------------------------------------------------------------------
(* extract_data_from_markdown.py: extract_metadata_and_clean_content *)

Hashes == <<"#", "#">>
MetadataStart == <<"M", "e", "t", "a", "d", "a", "t", "a", "_", "S", "t", "a", "r", "t">>
MetadataEnd == <<"M", "e", "t", "a", "d", "a", "t", "a", "_", "E", "n", "d">>
TitleKey == <<"t", "i", "t", "l", "e", ":">>
SlugKey == <<"s", "l", "u", "g", ":">>
AnnotationMarker == <<":", ":", ":">>

\* ##\s*word tried at index i: the index of its last character, 0 when it
\* does not match
heading_end(text, i, word) ==
    IF ~starts_at(text, i, Hashes) THEN 0
    ELSE LET w == run_end(text, i + 2, Whitespace) + 1
         IN  IF starts_at(text, w, word) THEN w + Len(word) - 1 ELSE 0

\* Line 12: (##\s*Metadata_Start.*?##\s*Metadata_End) with DOTALL, searched
\* from the left; the block ends at the first Metadata_End heading after
\* the Metadata_Start heading.
metadata_block_match(text) ==
    LET ends(s) == {q \in (heading_end(text, s, MetadataStart) + 1)..Len(text) :
                       heading_end(text, q, MetadataEnd) # 0}
        S == {s \in 1..Len(text) :
                 heading_end(text, s, MetadataStart) # 0 /\ ends(s) # {}}
    IN  IF S = {} THEN [found |-> FALSE, start |-> 0, end |-> 0]
        ELSE LET s == SetMin(S)
             IN  [found |-> TRUE, start |-> s,
                  end |-> heading_end(text, SetMin(ends(s)), MetadataEnd)]

\* Lines 19-24: ##\s*key\s*(.*) searched in the metadata block.  \s* runs
\* over line ends too; (.*) stops at the end of the line.  The value is
\* stripped.
metadata_value(block, key) ==
    LET S == {s \in 1..Len(block) : heading_end(block, s, key) # 0}
    IN  IF S = {} THEN NoneText
        ELSE LET k == heading_end(block, SetMin(S), key)
                 v0 == run_end(block, k + 1, Whitespace) + 1
                 N == {j \in v0..Len(block) : block[j] = "\n"}
                 v1 == IF N = {} THEN Len(block) ELSE SetMin(N) - 1
             IN  SomeText(strip(SubSeq(block, v0, v1)))

ANNOTATION_LIMIT == 100

\* Line 39 with >= in the place of >
is_document_text_inclusive(potential_content) ==
    \/ Len(potential_content) >= ANNOTATION_LIMIT
    \/ \E i \in 1..Len(potential_content) :
          /\ IsLineStart(potential_content, i)
          /\ potential_content[i] \in {"#", "*", Backtick, "-"}

\* Line 39: len(potential_content) > 100 or a line of it starting with
\* one of # * - or the grave accent (^ with MULTILINE)
is_document_text(potential_content) ==
    \/ Len(potential_content) > ANNOTATION_LIMIT
    \/ \E i \in 1..Len(potential_content) :
          /\ IsLineStart(potential_content, i)
          /\ potential_content[i] \in {"#", "*", Backtick, "-"}

\* Lines 30-42: split(":::", 1) of a text that starts with the marker
strip_annotation(content_without_metadata) ==
    IF ~starts_at(content_without_metadata, 1, AnnotationMarker)
    THEN content_without_metadata
    ELSE LET i == str_find(content_without_metadata, AnnotationMarker, 1)
             before == SubSeq(content_without_metadata, 1, i - 1)
             after == SubSeq(content_without_metadata, i + Len(AnnotationMarker),
                             Len(content_without_metadata))
             potential_content == strip(after)
         IN  IF is_document_text(potential_content)
             THEN potential_content
             ELSE strip(before)

\* Lines 6-46.  title, slug and content are what the function returns;
\* has_block and remaining record line 16 and the text after line 27.
extract_metadata_and_clean_content(full_doc_content) ==
    LET m == metadata_block_match(full_doc_content)
    IN  IF ~m.found
        THEN [title |-> NoneText, slug |-> NoneText, has_block |-> FALSE,
              remaining |-> full_doc_content, content |-> full_doc_content]
        ELSE LET metadata_block == SubSeq(full_doc_content, m.start, m.end)
                 remaining == strip(replace_first(full_doc_content, metadata_block, <<>>))
             IN  [title |-> metadata_value(metadata_block, TitleKey),
                  slug |-> metadata_value(metadata_block, SlugKey),
                  has_block |-> TRUE,
                  remaining |-> remaining,
                  content |-> strip_annotation(remaining)]

----------------------------------------------------------------------------
(* extract_data_from_markdown.py: the consolidated file and doc_pattern *)

ArquivoPrefix == <<"#", "#", " ", "A", "r", "q", "u", "i", "v", "o", ":", " ">>
NextArquivo == <<"\n", "#", "#", " ", "A", "r", "q", "u", "i", "v", "o", ":">>
HyphenRule == <<"-", "-", "-">>

\* doc_pattern (line 65) tried at index s:
\*   ## Arquivo: (.*?\.md)\s*\n*-{3,}\s*\n*(.*?)(?=\n## Arquivo:|\Z)
\* Group 1 ends at the first ".md" that is followed by white space and
\* three or more hyphens.  The \s* after the hyphens takes all the white
\* space there is; group 2 then runs up to the first "\n## Arquivo:" at or
\* after that point, or to the end of the text.
NoMatch == [found |-> FALSE, path |-> <<>>, body |-> <<>>, end |-> 0]

doc_pattern_match_at(text, s) ==
    IF ~starts_at(text, s, ArquivoPrefix)
    THEN NoMatch
    ELSE LET p0 == s + Len(ArquivoPrefix)
             rule_start(e) == run_end(text, e + 1, Whitespace) + 1
             rule_end(e) == run_end(text, rule_start(e), {"-"})
             E == {e \in (p0 + Len(MdSuffix) - 1)..Len(text) :
                      /\ starts_at(text, e - Len(MdSuffix) + 1, MdSuffix)
                      /\ rule_end(e) - rule_start(e) + 1 >= 3}
         IN  IF E = {}
             THEN NoMatch
             ELSE LET e == SetMin(E)
                      b0 == run_end(text, rule_end(e) + 1, Whitespace) + 1
                      B == {p \in b0..(Len(text) + 1) :
                               p = Len(text) + 1 \/ starts_at(text, p, NextArquivo)}
                      p == SetMin(B)
                  IN  [found |-> TRUE, path |-> SubSeq(text, p0, e),
                       body |-> SubSeq(text, b0, p - 1), end |-> p - 1]

\* finditer: where the next match starts at or after pos, 0 when there is
\* none
next_match_start(text, pos) ==
    LET S == {s \in pos..Len(text) : doc_pattern_match_at(text, s).found}
    IN  IF S = {} THEN 0 ELSE SetMin(S)

\* One document of the consolidated file: its "## Arquivo:" path, whether
\* it has a metadata block, the title and slug lines of the block (None:
\* no such line) and the text after the block.
Block(path, has_meta, title, slug, body) ==
    [path |-> path, has_meta |-> has_meta, title |-> title, slug |-> slug, body |-> body]

Filler(n) == [i \in 1..n |-> "x"]

BlockSamples ==
    {Block(<<"a", ".", "m", "d">>, TRUE, SomeText(<<"A">>), SomeText(<<"a">>), <<"B", "o", "d", "y", " ", "A">>),
     Block(<<"d", "/", "b", "_", "c", ".", "m", "d">>, FALSE, NoneText, NoneText, <<"H", "i">>),
     Block(<<"e", ".", "m", "d">>, FALSE, NoneText, NoneText, <<>>),
     Block(<<"f", ".", "m", "d">>, TRUE, SomeText(<<"F", " ", "G">>), NoneText, <<"x">>),
     Block(<<"g", ".", "m", "d">>, TRUE, NoneText, SomeText(<<"g">>), <<>>),
     Block(<<"h", ".", "m", "d">>, TRUE, SomeText(<<"H">>), SomeText(<<"h">>), <<":", ":", ":", "n">>),
     Block(<<"i", ".", "m", "d">>, TRUE, SomeText(<<"I">>), SomeText(<<"i">>), <<":", ":", ":", "\n", "#", " ", "T">>),
     Block(<<"j", ".", "m", "d">>, FALSE, NoneText, NoneText, <<":", ":", ":", "n">>),
     Block(<<"k", ".", "m", "d">>, TRUE, SomeText(<<"K">>), SomeText(<<"k">>),
           AnnotationMarker \o Filler(ANNOTATION_LIMIT)),
     Block(<<"l", ".", "m", "d">>, TRUE, SomeText(<<"L">>), SomeText(<<"l">>),
           AnnotationMarker \o Filler(ANNOTATION_LIMIT + 1))}

\* The metadata block as lines 12-23 read it
render_metadata(b) ==
    Hashes \o <<" ">> \o MetadataStart \o <<"\n">>
    \o (IF b.title.isnone THEN <<>>
        ELSE Hashes \o <<" ">> \o TitleKey \o <<" ">> \o b.title.text \o <<"\n">>)
    \o (IF b.slug.isnone THEN <<>>
        ELSE Hashes \o <<" ">> \o SlugKey \o <<" ">> \o b.slug.text \o <<"\n">>)
    \o Hashes \o <<" ">> \o MetadataEnd \o <<"\n">>

\* One block as doc_pattern reads it: the header line, a rule of hyphens,
\* then the document
render_block(b) ==
    ArquivoPrefix \o b.path \o <<"\n">> \o HyphenRule \o <<"\n">>
    \o (IF b.has_meta THEN render_metadata(b) ELSE <<>>) \o b.body

\* The consolidated file: the blocks, one after the other, each on lines
\* of its own
RECURSIVE render_file(_)
render_file(blocks) ==
    IF blocks = <<>> THEN <<>>
    ELSE IF Len(blocks) = 1 THEN render_block(blocks[1])
    ELSE render_block(Head(blocks)) \o <<"\n">> \o render_file(Tail(blocks))

NoMarkdownFile == [exists |-> FALSE, blocks |-> <<>>]

MarkdownFiles ==
    {NoMarkdownFile}
    \cup {[exists |-> TRUE, blocks |-> bs] :
             bs \in UNION {[1..n -> BlockSamples] : n \in 0..MaxBlocks}}

\* Lines 98-104
Record(title, slug, content, filepath) ==
    [title |-> title, slug |-> slug, content |-> content, filepath |-> filepath]

\* Lines 72-96: what one iteration of the loop computes for the match m.
\* outcome is "empty_body" (line 75), "empty_content" (line 94) or "emitted".
process_match(m) ==
    LET file_path_relative == strip(m.path)
        raw_doc_content == strip(m.body)
    IN  IF raw_doc_content = <<>>
        THEN [outcome |-> "empty_body", filepath |-> file_path_relative,
              has_block |-> FALSE, remaining |-> <<>>,
              record |-> Record(<<>>, <<>>, <<>>, file_path_relative)]
        ELSE LET r == extract_metadata_and_clean_content(raw_doc_content)
                 doc_title == IF Truthy(r.title) THEN r.title.text
                              ELSE title_from_filename(file_path_relative)
                 temp_slug_source ==
                     IF doc_title # <<>> THEN doc_title
                     ELSE replace_all(basename(file_path_relative), MdSuffix, <<>>)
                 doc_slug == IF Truthy(r.slug) THEN r.slug.text
                             ELSE slugify(temp_slug_source)
             IN  [outcome |-> IF r.content = <<>> THEN "empty_content" ELSE "emitted",
                  filepath |-> file_path_relative,
                  has_block |-> r.has_block, remaining |-> r.remaining,
                  record |-> Record(doc_title, doc_slug, r.content, file_path_relative)]

NoRawDocsFile == [written |-> FALSE, docs |-> <<>>]

ExtractNotStarted ==
    /\ xpc = "start"
    /\ full_content = <<>>
    /\ scan_pos = 1
    /\ match = NoMatch
    /\ extracted_docs = <<>>
    /\ seen = <<>>
    /\ raw_docs_file = NoRawDocsFile
    /\ extract_ret = "none"

----------------------------------------------------------------------------
(* The web application: startup and handle_analyze_coverage *)

DEFAULT_TOP_K == 5

NoResult == [exc |-> "unset", val |-> <<>>]

\* The handler before its first request
HandlerIdle ==
    /\ pc = "idle"
    /\ request = NoBody
    /\ query = <<>>
    /\ query_embedding = <<>>
    /\ top_k = 0
    /\ relevant = NoResult
    /\ response = NoResponse
    /\ embed_calls = 0
    /\ gen_calls = 0
    /\ search_calls = 0
    /\ embed_outcome = "none"
    /\ gen_outcome = "none"

\* The web application after start-up; the batch pipeline is not running.
Init ==
    /\ \E file \in CorpusFiles : PROCESSED_DOCS = load_documentation(file)
    /\ HandlerIdle
    /\ input_file = [state |-> "missing", docs |-> <<>>]
    /\ BatchNotStarted
    /\ markdown_file = NoMarkdownFile
    /\ ExtractNotStarted

\* data = request.get_json(): raises BadRequest on a body that is not
\* JSON, and returns the decoded value otherwise.
\* data.get('query', '').strip(): AttributeError when data is no object or
\* the value of "query" is no string.
\* Outcome of lines 173-176: the exception raised, or the stripped query.
parse_request(body) ==
    IF body.kind = "malformed" THEN [exc |-> "BadRequest", query |-> <<>>]
    ELSE IF body.kind # "object" THEN [exc |-> "AttributeError", query |-> <<>>]
    ELSE IF ~body.has_query THEN [exc |-> "none", query |-> strip(<<>>)]
    ELSE IF body.qtype # "str" THEN [exc |-> "AttributeError", query |-> <<>>]
    ELSE [exc |-> "none", query |-> strip(body.qtext)]

\* A request arrives; lines 173-178 run up to the first external call.
ReceiveRequest(body) ==
    /\ pc \in {"idle", "done"}
    /\ request' = body
    /\ query_embedding' = <<>>
    /\ top_k' = 0
    /\ relevant' = NoResult
    /\ embed_calls' = 0
    /\ gen_calls' = 0
    /\ search_calls' = 0
    /\ embed_outcome' = "none"
    /\ gen_outcome' = "none"
    /\ LET parsed == parse_request(body) IN
       /\ query' = parsed.query
       /\ IF parsed.exc # "none"
          THEN /\ response' = Propagated(parsed.exc)
               /\ pc' = "done"
          ELSE IF parsed.query = <<>>
          THEN /\ response' = blank_query_response
               /\ pc' = "done"
          ELSE /\ response' = NoResponse
               /\ pc' = "embed"
    /\ UNCHANGED <<PROCESSED_DOCS, batchVars, extractVars>>

\* query_embedding = generate_embedding(query): one call to the embedding
\* service; any exception is caught and None returned (lines 62-69), and
\* the handler answers None with an error object and status 500.
GenerateEmbedding(outcome) ==
    /\ pc = "embed"
    /\ embed_calls' = embed_calls + 1
    /\ IF outcome.isnone
       THEN /\ embed_outcome' = "fail"
            /\ response' = embedding_failure_response
            /\ pc' = "done"
            /\ UNCHANGED query_embedding
       ELSE /\ embed_outcome' = "ok"
            /\ query_embedding' = outcome.vec
            /\ pc' = "search"
            /\ UNCHANGED response
    /\ UNCHANGED <<PROCESSED_DOCS, request, query, top_k, relevant, gen_calls,
                   search_calls, gen_outcome, batchVars, extractVars>>

\* relevant_docs_with_similarity = get_relevant_documents(query_embedding,
\* top_k=5); an exception is caught by the handler's except clause.
SearchDocuments ==
    /\ pc = "search"
    /\ top_k' = DEFAULT_TOP_K
    /\ search_calls' = search_calls + 1
    /\ LET found == get_relevant_documents(PROCESSED_DOCS, query_embedding, DEFAULT_TOP_K) IN
       /\ relevant' = found
       /\ IF found.exc # "none"
          THEN /\ response' = internal_error_response(found.exc)
               /\ pc' = "done"
          ELSE /\ pc' = "analyze"
               /\ UNCHANGED response
    /\ UNCHANGED <<PROCESSED_DOCS, request, query, query_embedding, embed_calls,
                   gen_calls, embed_outcome, gen_outcome, batchVars, extractVars>>

\* coverage_result = analyze_coverage_with_context(...); return
\* jsonify(coverage_result)
AnalyzeCoverage(gen_ok) ==
    /\ pc = "analyze"
    /\ LET result == analyze_coverage_with_context(PROCESSED_DOCS, query, relevant.val, gen_ok) IN
       /\ gen_calls' = gen_calls + (IF result.called_gen THEN 1 ELSE 0)
       /\ gen_outcome' = IF ~result.called_gen THEN "none"
                         ELSE IF gen_ok THEN "ok" ELSE "fail"
       /\ response' = Response("handler", 200, "result", "none",
                               result.response_text, result.relevant_docs_info)
    /\ pc' = "done"
    /\ UNCHANGED <<PROCESSED_DOCS, request, query, query_embedding, top_k, relevant,
                   embed_calls, search_calls, embed_outcome, batchVars, extractVars>>

Next ==
    \/ \E body \in RequestBodies : ReceiveRequest(body)
    \/ \E outcome \in {NoneValue} \cup {Vector(v) : v \in QueryVectors} :
           GenerateEmbedding(outcome)
    \/ SearchDocuments
    \/ \E gen_ok \in BOOLEAN : AnalyzeCoverage(gen_ok)

Spec == Init /\ [][Next]_vars

----------------------------------------------------------------------------
(* get_relevant_documents called on its own, for every top_k *)

GetRelevantDocumentsCall(q, k) ==
    /\ pc = "idle"
    /\ query_embedding' = q
    /\ top_k' = k
    /\ relevant' = get_relevant_documents(PROCESSED_DOCS, q, k)
    /\ search_calls' = 1
    /\ UNCHANGED <<PROCESSED_DOCS, pc, request, query, response, embed_calls,
                   gen_calls, embed_outcome, gen_outcome, batchVars, extractVars>>

NextSearch == \E q \in QueryVectors, k \in 0..MaxK : GetRelevantDocumentsCall(q, k)

SpecSearch == Init /\ [][NextSearch]_vars

----------------------------------------------------------------------------
(* generate_embeddings_for_docs, run on its own *)

InitBatch ==
    /\ PROCESSED_DOCS = <<>>
    /\ HandlerIdle
    /\ input_file \in InputFiles
    /\ BatchNotStarted
    /\ markdown_file = NoMarkdownFile
    /\ ExtractNotStarted

RetryReset ==
    /\ attempt' = 0
    /\ calls' = 0
    /\ outcomes' = <<>>
    /\ sleeps' = <<>>
    /\ ret' = NoneValue

\* Lines 52-69: a missing or undecodable input ends the run with False.
BatchLoad ==
    /\ bpc = "start"
    /\ IF input_file.state = "ok"
       THEN /\ raw_docs' = input_file.docs
            /\ bpc' = "loop"
            /\ UNCHANGED batch_ret
       ELSE /\ batch_ret' = "False"
            /\ bpc' = "done"
            /\ UNCHANGED raw_docs
    /\ processed_docs' = <<>>
    /\ UNCHANGED <<input_file, doc_index, attempt, calls, outcomes, sleeps, ret,
                   returned, output_file, appVars, extractVars>>

\* Lines 71-87: the next record; an empty cleaned text is recorded with a
\* null embedding without any call, otherwise generate_embedding_with_retry
\* is entered.
BatchNextDocument ==
    /\ bpc = "loop"
    /\ doc_index <= Len(raw_docs)
    /\ IF strip(embedding_text(raw_docs[doc_index])) = <<>>
       THEN /\ processed_docs' = append_processed(processed_docs, raw_docs[doc_index], NoneValue)
            /\ returned' = Append(returned, [called |-> FALSE, value |-> NoneValue])
            /\ doc_index' = doc_index + 1
            /\ UNCHANGED bpc
       ELSE /\ bpc' = "embed_call"
            /\ UNCHANGED <<processed_docs, returned, doc_index>>
    /\ RetryReset
    /\ UNCHANGED <<input_file, raw_docs, output_file, batch_ret, appVars, extractVars>>

\* Lines 36-44: one call of genai.embed_content; outcome is the vector, or
\* None when the call raises.
EmbedAttempt(outcome) ==
    /\ bpc = "embed_call"
    /\ calls' = calls + 1
    /\ outcomes' = Append(outcomes, outcome)
    /\ IF ~outcome.isnone
       THEN /\ ret' = outcome
            /\ bpc' = "returned"
       ELSE IF attempt < RETRIES - 1
       THEN /\ bpc' = "sleep"
            /\ UNCHANGED ret
       ELSE /\ ret' = NoneValue
            /\ bpc' = "returned"
    /\ UNCHANGED <<input_file, raw_docs, processed_docs, doc_index, attempt, sleeps,
                   returned, output_file, batch_ret, appVars, extractVars>>

\* Line 42, then the next iteration of the for loop
BackoffSleep ==
    /\ bpc = "sleep"
    /\ sleeps' = Append(sleeps, backoff_delay(attempt))
    /\ attempt' = attempt + 1
    /\ bpc' = "embed_call"
    /\ UNCHANGED <<input_file, raw_docs, processed_docs, doc_index, calls, outcomes,
                   ret, returned, output_file, batch_ret, appVars, extractVars>>

\* Lines 89-97: the record is appended with the vector, or with None.
StoreEmbedding ==
    /\ bpc = "returned"
    /\ processed_docs' = append_processed(processed_docs, raw_docs[doc_index], ret)
    /\ returned' = Append(returned, [called |-> TRUE, value |-> ret])
    /\ doc_index' = doc_index + 1
    /\ bpc' = "loop"
    /\ RetryReset
    /\ UNCHANGED <<input_file, raw_docs, output_file, batch_ret, appVars, extractVars>>

\* Lines 99-110: nothing processed gives False; otherwise the list is
\* written, and a failed write gives False.
BatchSave(save_ok) ==
    /\ bpc = "loop"
    /\ doc_index > Len(raw_docs)
    /\ IF processed_docs = <<>>
       THEN /\ batch_ret' = "False"
            /\ UNCHANGED output_file
       ELSE IF save_ok
       THEN /\ output_file' = [written |-> TRUE, docs |-> processed_docs]
            /\ batch_ret' = "True"
       ELSE /\ batch_ret' = "False"
            /\ UNCHANGED output_file
    /\ bpc' = "done"
    /\ UNCHANGED <<input_file, raw_docs, processed_docs, doc_index, attempt, calls,
                   outcomes, sleeps, ret, returned, appVars, extractVars>>

\* The call to the embedding service returns a vector or raises
EmbedCall == \E outcome \in {NoneValue} \cup {Vector(v) : v \in BatchVectors} :
                 EmbedAttempt(outcome)

NextBatch ==
    \/ BatchLoad
    \/ BatchNextDocument
    \/ EmbedCall
    \/ BackoffSleep
    \/ StoreEmbedding
    \/ \E save_ok \in BOOLEAN : BatchSave(save_ok)

\* Inside generate_embedding_with_retry the code runs on: every call to
\* the embedding service ends (with a vector or an exception) and every
\* sleep ends.
SpecBatch == InitBatch /\ [][NextBatch]_vars /\ WF_vars(EmbedCall) /\ WF_vars(BackoffSleep)

----------------------------------------------------------------------------
(* extract_data_from_markdown, run on its own *)

InitExtract ==
    /\ PROCESSED_DOCS = <<>>
    /\ HandlerIdle
    /\ input_file = [state |-> "missing", docs |-> <<>>]
    /\ BatchNotStarted
    /\ markdown_file \in MarkdownFiles
    /\ ExtractNotStarted

\* Lines 53-67: a missing file ends the run with False; otherwise the file
\* is read and the search for matches starts at its beginning.
ExtractRead ==
    /\ xpc = "start"
    /\ IF markdown_file.exists
       THEN /\ full_content' = render_file(markdown_file.blocks)
            /\ xpc' = "loop"
            /\ UNCHANGED extract_ret
       ELSE /\ extract_ret' = "False"
            /\ xpc' = "done"
            /\ UNCHANGED full_content
    /\ extracted_docs' = <<>>
    /\ scan_pos' = 1
    /\ UNCHANGED <<markdown_file, match, seen, raw_docs_file, appVars, batchVars>>

\* Line 71: finditer gives the next match of doc_pattern; the search goes
\* on where the match ended.
ExtractNextMatch ==
    /\ xpc = "loop"
    /\ next_match_start(full_content, scan_pos) # 0
    /\ match' = doc_pattern_match_at(full_content, next_match_start(full_content, scan_pos))
    /\ scan_pos' = match'.end + 1
    /\ xpc' = "body"
    /\ UNCHANGED <<markdown_file, full_content, extracted_docs, seen, raw_docs_file,
                   extract_ret, appVars, batchVars>>

\* Lines 72-104: the loop body on the match; a document without text is
\* left out, any other is appended to extracted_docs.
ExtractDocument ==
    /\ xpc = "body"
    /\ seen' = Append(seen, process_match(match))
    /\ extracted_docs' = IF seen'[Len(seen')].outcome = "emitted"
                         THEN Append(extracted_docs, seen'[Len(seen')].record)
                         ELSE extracted_docs
    /\ xpc' = "loop"
    /\ UNCHANGED <<markdown_file, full_content, scan_pos, match, raw_docs_file,
                   extract_ret, appVars, batchVars>>

\* Lines 109-120: nothing extracted gives False; otherwise the list is
\* written, and a failed write gives False.
ExtractSave(save_ok) ==
    /\ xpc = "loop"
    /\ next_match_start(full_content, scan_pos) = 0
    /\ IF extracted_docs = <<>>
       THEN /\ extract_ret' = "False"
            /\ UNCHANGED raw_docs_file
       ELSE IF save_ok
       THEN /\ raw_docs_file' = [written |-> TRUE, docs |-> extracted_docs]
            /\ extract_ret' = "True"
       ELSE /\ extract_ret' = "False"
            /\ UNCHANGED raw_docs_file
    /\ xpc' = "done"
    /\ UNCHANGED <<markdown_file, full_content, scan_pos, match, extracted_docs, seen,
                   appVars, batchVars>>

NextExtract ==
    \/ ExtractRead
    \/ ExtractNextMatch
    \/ ExtractDocument
    \/ \E save_ok \in BOOLEAN : ExtractSave(save_ok)

SpecExtract == InitExtract /\ [][NextExtract]_vars

----------------------------------------------------------------------------
(* Properties of get_relevant_documents (SpecSearch) *)

\* A stored embedding that is a non-empty vector of the query's dimension
ValidEmbedding(e, q) == ~e.isnone /\ Len(e.vec) > 0 /\ Len(e.vec) = Len(q)

ValidCandidates ==
    {i \in 1..Len(PROCESSED_DOCS) : ValidEmbedding(PROCESSED_DOCS[i].embedding, query_embedding)}

ReturnedDocs == {relevant.val[j].idx : j \in 1..Len(relevant.val)}

SimOf(i) == similarity(query_embedding, PROCESSED_DOCS[i].embedding.vec)

\* Record i comes before record j in the ranking
Precedes(i, j) == SimOf(i) > SimOf(j) \/ (SimOf(i) = SimOf(j) /\ i < j)

\* C1: whenever get_relevant_documents(query_embedding, top_k) returns, it
\* returns at most top_k matches, and every returned document has a
\* non-null, non-empty embedding of the query vector's length.
C1_AtMostKValidMatches ==
    relevant.exc = "none" =>
        /\ Len(relevant.val) <= top_k
        /\ \A j \in 1..Len(relevant.val) :
               /\ relevant.val[j].idx \in 1..Len(PROCESSED_DOCS)
               /\ ValidEmbedding(PROCESSED_DOCS[relevant.val[j].idx].embedding,
                                 query_embedding)

\* C1 witness: a search that cut the ranking at top_k over a corpus that
\* also holds a record of another dimension.
C1_Witness ==
    /\ relevant.exc = "none"
    /\ top_k > 0
    /\ Len(relevant.val) = top_k
    /\ Cardinality(ValidCandidates) > top_k
    /\ \E i \in 1..Len(PROCESSED_DOCS) :
           /\ ~PROCESSED_DOCS[i].embedding.isnone
           /\ Len(PROCESSED_DOCS[i].embedding.vec) # Len(query_embedding)

\* C2 (as claimed): a search over any corpus, records with a null or empty
\* embedding included, completes normally and returns the ranking of the
\* valid records, which is empty when no record is valid.
C2_NullEmbeddingOnlyExcluded ==
    relevant.exc # "unset" =>
        /\ relevant.exc = "none"
        /\ ReturnedDocs \subseteq ValidCandidates
        /\ Len(relevant.val) = Min(top_k, Cardinality(ValidCandidates))

\* C3: the returned sequence is the first top_k of the valid candidates in
\* the order "greater similarity first, equal similarity in corpus order":
\* each match carries its record's similarity, an earlier match precedes a
\* later one, and every returned match precedes every omitted candidate.
C3_StableDescendingTopK ==
    relevant.exc = "none" =>
        /\ Len(relevant.val) = Min(top_k, Cardinality(ValidCandidates))
        /\ \A j \in 1..Len(relevant.val) :
               /\ relevant.val[j].idx \in ValidCandidates
               /\ relevant.val[j].sim = SimOf(relevant.val[j].idx)
        /\ \A a, b \in 1..Len(relevant.val) :
               a < b => Precedes(relevant.val[a].idx, relevant.val[b].idx)
        /\ \A c \in ValidCandidates \ ReturnedDocs :
               \A j \in 1..Len(relevant.val) : Precedes(relevant.val[j].idx, c)

\* C3 witness: two returned matches tie, and an omitted candidate ties with
\* the last returned match.
C3_Witness ==
    /\ relevant.exc = "none"
    /\ Len(relevant.val) >= 2
    /\ relevant.val[1].sim = relevant.val[2].sim
    /\ \E c \in ValidCandidates \ ReturnedDocs :
           SimOf(c) = relevant.val[Len(relevant.val)].sim

----------------------------------------------------------------------------
(* Properties of the request handler (Spec) *)

\* C4 (as claimed): the mode depends on the emptiness of the ranked matches
\* alone: none gives the "not found" prefix with no documents, some give
\* the "partially covered" response.
C4_ModeByMatchesAlone ==
    response.kind = "result" =>
        /\ (relevant.val = <<>> =>
               /\ response.response_text.prefix = "not_found"
               /\ response.relevant_docs_info = <<>>)
        /\ (relevant.val # <<>> =>
               response.response_text.prefix = "partially_covered")

\* C4 (amended): an empty corpus gives the fixed "not loaded" message with
\* no documents and no generation call; with a non-empty corpus the mode
\* depends on the emptiness of the ranked matches alone.
C4_ModeByCorpusThenMatches ==
    response.kind = "result" =>
        IF PROCESSED_DOCS = <<>>
        THEN /\ response.response_text.prefix = "not_loaded"
             /\ response.relevant_docs_info = <<>>
             /\ gen_calls = 0
        ELSE IF relevant.val = <<>>
        THEN /\ response.response_text.prefix = "not_found"
             /\ response.relevant_docs_info = <<>>
        ELSE response.response_text.prefix = "partially_covered"

\* C4 witness: a non-empty corpus whose records are all filtered out is
\* answered in no-match mode.
C4_Witness ==
    /\ response.kind = "result"
    /\ PROCESSED_DOCS # <<>>
    /\ relevant.exc = "none"
    /\ relevant.val = <<>>
    /\ response.response_text.prefix = "not_found"

\* C7: when the call to the generative model fails, the handler returns,
\* with status 200, the mode's prefix followed by the error note and an
\* empty relevant_docs_info, in match mode too.
C7_GenerationFailureDegraded ==
    gen_outcome = "fail" =>
        /\ pc = "done"
        /\ response.origin = "handler"
        /\ response.status = 200
        /\ response.kind = "result"
        /\ response.response_text.prefix =
               (IF relevant.val = <<>> THEN "not_found" ELSE "partially_covered")
        /\ response.response_text.query = query
        /\ response.response_text.tail = "error_note"
        /\ response.relevant_docs_info = <<>>

\* C7 witness: generation failed in match mode.
C7_Witness ==
    /\ gen_outcome = "fail"
    /\ relevant.val # <<>>
    /\ response.response_text.prefix = "partially_covered"
    /\ response.response_text.tail = "error_note"

\* The request carries a JSON object whose query is missing, empty or
\* whitespace only.
BlankQueryRequest ==
    /\ request.kind = "object"
    /\ \/ ~request.has_query
       \/ /\ request.qtype = "str"
          /\ \A j \in 1..Len(request.qtext) : request.qtext[j] \in Whitespace

\* C8: a request with a blank query is rejected by the handler with status
\* 400, and no embedding call, generation call or search is made for it.
C8_BlankQueryRejected ==
    BlankQueryRequest =>
        /\ pc = "done"
        /\ response.origin = "handler"
        /\ response.status = 400
        /\ response.kind = "error"
        /\ embed_calls = 0
        /\ gen_calls = 0
        /\ search_calls = 0

\* C8 witness: a whitespace-only query was rejected.
C8_Witness ==
    /\ request.kind = "object"
    /\ request.has_query
    /\ request.qtype = "str"
    /\ Len(request.qtext) > 0
    /\ BlankQueryRequest
    /\ response.status = 400

\* C9 (as claimed): the query is embedded exactly once, and a failure of
\* the embedding call or of the generation call is answered with a
\* successful-looking degraded result.
C9_ExternalFailuresDegraded ==
    /\ embed_calls <= 1
    /\ (embed_outcome = "fail" \/ gen_outcome = "fail") =>
           /\ response.origin = "handler"
           /\ response.status = 200
           /\ response.kind = "result"

\* C9 (amended): the query is embedded exactly once, without retry; a
\* failure of that call is answered by the handler with an error object
\* and status 500, without search or generation call; a failure of the
\* generation call is answered with a degraded result and status 200.
C9_EmbeddingFailureIsError ==
    /\ embed_calls <= 1
    /\ (pc \in {"search", "analyze"} \/ embed_outcome # "none") => embed_calls = 1
    /\ embed_outcome = "fail" =>
           /\ pc = "done"
           /\ response.origin = "handler"
           /\ response.status = 500
           /\ response.kind = "error"
           /\ search_calls = 0
           /\ gen_calls = 0
    /\ gen_outcome = "fail" =>
           /\ response.origin = "handler"
           /\ response.status = 200
           /\ response.kind = "result"

\* C9 witness: the embedding of the query failed after one call.
C9_Witness ==
    /\ embed_outcome = "fail"
    /\ embed_calls = 1
    /\ response.status = 500

\* C10 (as claimed): every finished request is answered by the handler's
\* own code: a result, a rejection or a fallback, never by an exception
\* that left the handler.
C10_NoExceptionLeavesHandler ==
    pc = "done" =>
        /\ response.origin = "handler"
        /\ response.kind \in {"result", "error"}

----------------------------------------------------------------------------
(* Properties of the batch pipeline (SpecBatch) *)

\* What holds of every state of an invocation of
\* generate_embedding_with_retry
C5_RetryState ==
    /\ calls <= 3
    /\ Len(outcomes) = calls
    /\ \A j \in 1..(Len(outcomes) - 1) : outcomes[j].isnone
    /\ sleeps = SubSeq(<<1, 2>>, 1, Len(sleeps))
    /\ bpc = "embed_call" => Len(sleeps) = calls
    /\ bpc = "sleep" => (Len(sleeps) = calls - 1 /\ outcomes[calls].isnone)
    /\ bpc = "returned" =>
           /\ calls >= 1
           /\ Len(sleeps) = calls - 1
           /\ ret.isnone <=> (calls = 3 /\ \A j \in 1..calls : outcomes[j].isnone)
           /\ ~ret.isnone => ret = outcomes[calls]

\* C5: generate_embedding_with_retry makes at most 3 calls, stops at the
\* first success and returns its vector, sleeps 1 s after the first failure
\* and 2 s after the second and not after the third, returns None exactly
\* when all 3 calls fail, and every invocation returns.
C5_RetryBoundedBackoff ==
    /\ []C5_RetryState
    /\ (bpc = "embed_call") ~> (bpc = "returned")

\* C5 witness: three failed calls, two sleeps, None returned.
C5_Witness ==
    /\ bpc = "returned"
    /\ calls = 3
    /\ sleeps = <<1, 2>>
    /\ ret.isnone

EmptyCleanedText(doc) == strip(embedding_text(doc)) = <<>>

\* C6: the output holds the input records one by one, in input order, with
\* title, slug, content and filepath unchanged; the embedding is null for
\* an empty cleaned text (no call made) and otherwise what
\* generate_embedding_with_retry returned (None on failure); a finished
\* run has every record, and the file written is that list.
C6_BatchKeepsEveryRecord ==
    /\ Len(processed_docs) = Len(returned)
    /\ bpc \in {"loop", "embed_call", "sleep", "returned"} =>
           Len(processed_docs) = doc_index - 1
    /\ \A j \in 1..Len(processed_docs) :
           /\ j <= Len(raw_docs)
           /\ processed_docs[j].title = raw_docs[j].title
           /\ processed_docs[j].slug = raw_docs[j].slug
           /\ processed_docs[j].content = raw_docs[j].content
           /\ processed_docs[j].filepath = raw_docs[j].filepath
           /\ returned[j].called <=> ~EmptyCleanedText(raw_docs[j])
           /\ processed_docs[j].embedding =
                  (IF EmptyCleanedText(raw_docs[j]) THEN NoneValue ELSE returned[j].value)
    /\ (bpc = "done" /\ input_file.state = "ok") =>
           Len(processed_docs) = Len(raw_docs)
    /\ batch_ret = "True" => output_file = [written |-> TRUE, docs |-> processed_docs]

\* C6 witness: the first record's embedding failed after its retries, the
\* second record was embedded, and the run wrote both.
C6_Witness ==
    /\ bpc = "done"
    /\ batch_ret = "True"
    /\ Len(processed_docs) >= 2
    /\ returned[1].called
    /\ processed_docs[1].embedding.isnone
    /\ ~processed_docs[2].embedding.isnone

----------------------------------------------------------------------------
(* Properties of the Markdown splitter (SpecExtract) *)

\* The run has gone through a file that exists
ExtractFinished == xpc = "done" /\ markdown_file.exists

\* A block that gives no record: it has no text, or nothing is left of its
\* text once the metadata block and the annotation are taken away
BlockIsSkipped(b) ==
    \/ strip(b.body) = <<>>
    \/ b.has_meta /\ strip_annotation(strip(b.body)) = <<>>

\* The title and slug of a block's record: the lines of the metadata
\* block, else the file name and the slug of the title
BlockTitle(b) == IF ~b.title.isnone THEN b.title.text ELSE title_from_filename(b.path)
BlockSlug(b) == IF ~b.slug.isnone THEN b.slug.text ELSE slugify(BlockTitle(b))

ScenarioBlock == Block(<<"a", ".", "m", "d">>, TRUE, SomeText(<<"A">>), SomeText(<<"a">>), <<"B", "o", "d", "y", " ", "A">>)

\* C11: once a file of well-formed blocks has been processed, the output
\* holds, in the order of the input, one record for every block that is
\* not skipped (empty body, or empty content after stripping) and no other
\* record; each record carries the block's path, a non-empty content and
\* the title and slug of the metadata block or, without them, of the file
\* name.  The file of the one block a.md with title A, slug a and the text
\* "Body A" gives exactly the record {A, a, "Body A", a.md}.
C11_OneRecordPerBlock ==
    ExtractFinished =>
        LET kept == SelectSeq(markdown_file.blocks, LAMBDA b : ~BlockIsSkipped(b))
        IN  /\ Len(extracted_docs) = Len(kept)
            /\ \A j \in 1..Len(kept) :
                  /\ extracted_docs[j].filepath = kept[j].path
                  /\ extracted_docs[j].title = BlockTitle(kept[j])
                  /\ extracted_docs[j].slug = BlockSlug(kept[j])
                  /\ extracted_docs[j].content # <<>>
            /\ markdown_file.blocks = <<ScenarioBlock>> =>
                  extracted_docs = <<Record(<<"A">>, <<"a">>, <<"B", "o", "d", "y", " ", "A">>, <<"a", ".", "m", "d">>)>>

\* The text begins with the ':::' marker
BeginsWithMarker(t) == Len(t) >= 3 /\ SubSeq(t, 1, 3) = <<":", ":", ":">>

\* The text that follows the first marker of a text that begins with it,
\* without the white space around it
FollowingText(t) == strip(SubSeq(t, 4, Len(t)))

\* Longer than 100 characters, or with a line that starts with one of
\* # * - or the grave accent
LooksLikeDocument(t) ==
    \/ Len(t) > 100
    \/ \E i \in 1..Len(t) :
          (i = 1 \/ t[i - 1] = "\n") /\ t[i] \in {"#", "*", "-", Backtick}

\* The documents whose body was not empty, in the order of the loop
CleanedDocs == SelectSeq(seen, LAMBDA r : r.outcome # "empty_body")

\* C12 as stated: for every document body, with or without a metadata
\* block, when the text left after the removal of the metadata begins with
\* ':::' the content is the text that follows the marker if that text is
\* longer than 100 characters or has a line starting with # * - or a grave
\* accent, and the text before the marker otherwise.
C12_AnnotationRuleForEveryBody ==
    \A j \in 1..Len(CleanedDocs) :
        LET r == CleanedDocs[j] IN
        BeginsWithMarker(r.remaining) =>
            IF LooksLikeDocument(FollowingText(r.remaining))
            THEN r.record.content = FollowingText(r.remaining)
            ELSE r.record.content = <<>>

\* C12, amended: the rule of the marker applies to the bodies that have a
\* metadata block.  For them, when the text left after the removal of the
\* block begins with ':::', the content is the stripped text that follows
\* the marker if that text is longer than 100 characters or has a line
\* starting with # * - or a grave accent (and the record is emitted with
\* it); otherwise the content is the text before the marker, which is
\* empty, and the document gives no record.  The content of every other
\* body is the text left after the removal of the block, and a body
\* without a metadata block is kept whole, marker included.  The output
\* holds the records of the documents with a non-empty content, in order.
C12_AnnotationRuleUnderMetadata ==
    /\ \A j \in 1..Len(CleanedDocs) :
          LET r == CleanedDocs[j] IN
          IF r.has_block /\ BeginsWithMarker(r.remaining)
          THEN IF LooksLikeDocument(FollowingText(r.remaining))
               THEN r.outcome = "emitted" /\ r.record.content = FollowingText(r.remaining)
               ELSE r.outcome = "empty_content" /\ r.record.content = <<>>
          ELSE /\ r.record.content = r.remaining
               /\ r.outcome = IF r.remaining = <<>> THEN "empty_content" ELSE "emitted"
    /\ LET emitted == SelectSeq(seen, LAMBDA r : r.outcome = "emitted")
       IN  extracted_docs = [j \in 1..Len(emitted) |-> emitted[j].record]

\* Two documents with a metadata block and a marker have been processed:
\* one whose text after the marker is over the limit and was emitted with
\* that text, and one whose short annotation left it without a record
C12_Witness ==
    \E i, j \in 1..Len(seen) :
        /\ seen[i].has_block
        /\ BeginsWithMarker(seen[i].remaining)
        /\ Len(FollowingText(seen[i].remaining)) > 100
        /\ seen[i].outcome = "emitted"
        /\ \E n \in 1..Len(extracted_docs) :
              extracted_docs[n].content = FollowingText(seen[i].remaining)
        /\ seen[j].has_block
        /\ BeginsWithMarker(seen[j].remaining)
        /\ ~LooksLikeDocument(FollowingText(seen[j].remaining))
        /\ seen[j].outcome = "empty_content"

====
